---- MODULE Spec2Model ----
(***************************************************************************)
(* LinearEqualityToPenalty: conversion of a quadratic program with linear  *)
(* equality constraints into an unconstrained one with penalty terms, and  *)
(* the conversion of a result back to the original problem.                *)
(*                                                                         *)
(* Floats are held as fixed-point numbers, in quarters: the float v is the *)
(* integer 4*v.  Objective coefficients and penalties of the inputs are    *)
(* whole numbers, constraint coefficients are multiples of 1/2, so every   *)
(* product the converter forms is a multiple of 1/4 and is exact.  The     *)
(* values of a result's x are whole numbers and are held unscaled.         *)
(* Variables are addressed by their position 1..n in the problem.          *)
(***************************************************************************)
EXTENDS Integers, Sequences, FiniteSets, TLC

VARIABLES op, snap, src, dst, self_penalty, dst_name, penalty, ret,
          encArg, okArg, result, new_result

vars == <<op, snap, src, dst, self_penalty, dst_name, penalty, ret,
          encArg, okArg, result, new_result>>

\* an optional value is a sequence of at most one element
None == <<>>

Some(v) == <<v>>

Val(o) == o[1]

(***************************************************************************)
(* Bounds of the model.                                                    *)
(***************************************************************************)
\* largest upper bound of an Integer/Continuous variable, largest value in x
MaxUB == 2
\* largest magnitude of a coefficient of a source objective
MaxCoef == 1
\* largest right-hand side of a constraint
MaxRhs == 1
\* largest penalty factor a caller configures
MaxPenalty == 2

(***************************************************************************)
(* Float arithmetic.                                                       *)
(***************************************************************************)
Num(v) == 4 * v

Mul(a, b) == (a * b) \div 4

Abs(a) == IF a < 0 THEN -a ELSE a

is_integer(t) == t % 4 = 0

RECURSIVE SumOf(_)
SumOf(f) ==
    IF DOMAIN f = {} THEN 0
    ELSE LET k == CHOOSE k \in DOMAIN f : TRUE
         IN  f[k] + SumOf([j \in DOMAIN f \ {k} |-> f[j]])

\* dict.get(key, 0.0)
Get(d, key) == IF key \in DOMAIN d THEN d[key] ELSE 0

EmptyDict == [j \in {} |-> 0]

(***************************************************************************)
(* The problem container, as far as the converter uses it.                 *)
(***************************************************************************)
continuous_var(lowerbound, upperbound, name) ==
    [name |-> name, vartype |-> "CONTINUOUS",
     lowerbound |-> lowerbound, upperbound |-> upperbound]

binary_var(name) ==
    [name |-> name, vartype |-> "BINARY", lowerbound |-> 0, upperbound |-> 1]

integer_var(lowerbound, upperbound, name) ==
    [name |-> name, vartype |-> "INTEGER",
     lowerbound |-> lowerbound, upperbound |-> upperbound]

\* Sense.MINIMIZE.value = 1, Sense.MAXIMIZE.value = -1
SenseValue(sense) == IF sense = "MINIMIZE" THEN 1 ELSE -1

\* the objective of a freshly constructed QuadraticProgram
DefaultObjective ==
    [sense |-> "MINIMIZE", constant |-> 0, linear |-> EmptyDict, quadratic |-> EmptyDict]

\* QuadraticProgram()
QuadraticProgram ==
    [name |-> "", variables |-> <<>>, objective |-> DefaultObjective,
     linear_constraints |-> <<>>]

\* value of a linear expression at the whole-number assignment x
RowValue(row, x) == SumOf([j \in DOMAIN row |-> row[j] * x[j]])

\* value of an objective at the whole-number assignment x
Evaluate(objective, x) ==
    objective.constant
    + SumOf([j \in DOMAIN objective.linear |-> objective.linear[j] * x[j]])
    + SumOf([jk \in DOMAIN objective.quadratic |->
                objective.quadratic[jk] * x[jk[1]] * x[jk[2]]])

Satisfied(constraint, x) ==
    CASE constraint.sense = "EQ" -> RowValue(constraint.linear, x) = constraint.rhs
      [] constraint.sense = "LE" -> RowValue(constraint.linear, x) <= constraint.rhs
      [] constraint.sense = "GE" -> RowValue(constraint.linear, x) >= constraint.rhs

\* QuadraticProgram.substitute_variables with every variable fixed: the
\* objective folds to a constant, the status tells whether x is feasible
substitute_variables(qp, x) ==
    [objective |-> [constant |-> Evaluate(qp.objective, x)],
     status |-> IF \A i \in 1..Len(qp.linear_constraints) :
                       Satisfied(qp.linear_constraints[i], x)
                THEN "VALID" ELSE "INFEASIBLE"]

(***************************************************************************)
(* LinearEqualityToPenalty._auto_define_penalty                            *)
(***************************************************************************)
default_penalty == Num(100000)

\* the rhs and the row coefficients of every constraint
terms(qp) ==
    UNION {{qp.linear_constraints[i].rhs}
           \cup {qp.linear_constraints[i].linear[j] :
                    j \in DOMAIN qp.linear_constraints[i].linear} :
           i \in 1..Len(qp.linear_constraints)}

\* variant: the list does not start at 1.0
penalties_no_margin(qp) ==
    SumOf([j \in DOMAIN qp.objective.linear |-> Abs(qp.objective.linear[j])])
    + SumOf([jk \in DOMAIN qp.objective.quadratic |-> Abs(qp.objective.quadratic[jk])])

\* fsum(penalties)
penalties(qp) ==
    Num(1)
    + SumOf([j \in DOMAIN qp.objective.linear |-> Abs(qp.objective.linear[j])])
    + SumOf([jk \in DOMAIN qp.objective.quadratic |-> Abs(qp.objective.quadratic[jk])])

auto_define_penalty(qp) ==
    IF \E term \in terms(qp) : ~is_integer(term)
    THEN default_penalty
    ELSE penalties(qp)

(***************************************************************************)
(* LinearEqualityToPenalty.encode                                          *)
(***************************************************************************)
\* variant: the bounds are passed in the wrong order
copy_bounds_swapped(x) ==
    CASE x.vartype = "CONTINUOUS" -> continuous_var(x.upperbound, x.lowerbound, x.name)
      [] x.vartype = "BINARY" -> binary_var(x.name)
      [] x.vartype = "INTEGER" -> integer_var(x.upperbound, x.lowerbound, x.name)

\* one iteration of the loop that sets the variables of the destination
copy_variable(x) ==
    CASE x.vartype = "CONTINUOUS" -> continuous_var(x.lowerbound, x.upperbound, x.name)
      [] x.vartype = "BINARY" -> binary_var(x.name)
      [] x.vartype = "INTEGER" -> integer_var(x.lowerbound, x.upperbound, x.name)

\* variant: the sense is not looked at
sense_unsigned(objective) == 1

\* sense = self._src.objective.sense.value
sense_of(objective) == SenseValue(objective.sense)

\* variant: the term replaces the coefficient that is there
overwrite(d, key, term) == term

\* d[key] = d.get(key, 0.0) + term
accumulate(d, key, term) == Get(d, key) + term

\* variant: only the first constraint is checked
inequality_first(constraints, i) == i = 1 /\ constraints[i].sense # "EQ"

\* constraint.sense != Constraint.Sense.EQ
inequality_at(constraints, i) == constraints[i].sense # "EQ"

\* the body of the loop over the constraints, for one equality constraint:
\* the terms of penalty*(constant - row)**2 added to offset, linear, quadratic
penalty_terms(constraint, sense, pen, acc) ==
    LET constant == constraint.rhs
        row == constraint.linear
        pairs == (DOMAIN row) \X (DOMAIN row)
    IN  [raised |-> FALSE,
         offset |-> acc.offset + Mul(sense * pen, Mul(constant, constant)),
         linear |->
            [j \in (DOMAIN acc.linear) \cup (DOMAIN row) |->
                IF j \in DOMAIN row
                THEN accumulate(acc.linear, j,
                                Mul(Mul(sense * pen * (-2), row[j]), constant))
                ELSE acc.linear[j]],
         quadratic |->
            [tup \in (DOMAIN acc.quadratic) \cup pairs |->
                IF tup \in pairs
                THEN accumulate(acc.quadratic, tup,
                                Mul(Mul(sense * pen, row[tup[1]]), row[tup[2]]))
                ELSE acc.quadratic[tup]]]

\* the loop over the constraints from the i-th on; it stops at the first
\* constraint that is no equality
RECURSIVE convert_constraints(_, _, _, _, _)
convert_constraints(constraints, i, sense, pen, acc) ==
    IF i > Len(constraints) THEN acc
    ELSE IF inequality_at(constraints, i) THEN [acc EXCEPT !.raised = TRUE]
    ELSE convert_constraints(constraints, i + 1, sense, pen,
                             penalty_terms(constraints[i], sense, pen, acc))

\* encode, run on the copy qp of the problem passed, with the fields
\* _penalty and _dst_name of the converter: the local penalty, the
\* destination self._dst as the call leaves it, and what the call returns
encode(qp, field_penalty, field_name) ==
    LET pen == IF field_penalty = None THEN auto_define_penalty(qp) ELSE Val(field_penalty)
        named == [QuadraticProgram EXCEPT
                    !.name = IF field_name = None THEN qp.name ELSE Val(field_name)]
        declared == [named EXCEPT
                       !.variables = [i \in 1..Len(qp.variables) |->
                                         copy_variable(qp.variables[i])]]
        sense == sense_of(qp.objective)
        acc == convert_constraints(qp.linear_constraints, 1, sense, pen,
                   [raised |-> FALSE,
                    offset |-> qp.objective.constant,
                    linear |-> qp.objective.linear,
                    quadratic |-> qp.objective.quadratic])
        built == [declared EXCEPT
                    !.objective = [sense |-> qp.objective.sense,
                                   constant |-> acc.offset,
                                   linear |-> acc.linear,
                                   quadratic |-> acc.quadratic]]
    IN  IF acc.raised
        THEN [penalty |-> pen, dst |-> declared, raised |-> TRUE, value |-> None]
        ELSE [penalty |-> pen, dst |-> built, raised |-> FALSE, value |-> Some(built)]

(***************************************************************************)
(* LinearEqualityToPenalty.decode                                          *)
(***************************************************************************)
\* variant: fval and status are taken over from the result passed
decode_keep(qp, res) ==
    IF Len(res.x) # Len(qp.variables)
    THEN [raised |-> TRUE, value |-> None]
    ELSE [raised |-> FALSE,
          value |-> Some([x |-> res.x, fval |-> res.fval, status |-> res.status])]

\* decode, run against the retained source qp
decode(qp, res) ==
    IF Len(res.x) # Len(qp.variables)
    THEN [raised |-> TRUE, value |-> None]
    ELSE LET substituted_qp == substitute_variables(qp, res.x)
         IN  [raised |-> FALSE,
              value |-> Some([x |-> res.x,
                              fval |-> substituted_qp.objective.constant,
                              status |-> IF substituted_qp.status = "VALID"
                                         THEN "SUCCESS" ELSE "INFEASIBLE"])]

(***************************************************************************)
(* The problems, penalties, names and results the callers pass.            *)
(***************************************************************************)
VarNames == <<"x", "y">>

Senses == {"MINIMIZE", "MAXIMIZE"}

\* sparse maps from keys of S to values of V
Dicts(S, V) == UNION {[D -> V] : D \in SUBSET S}

SeqsUpTo2(S) == {<<>>} \cup {<<a>> : a \in S} \cup {<<a, b>> : a, b \in S}

ObjCoefs == {Num(c) : c \in (-MaxCoef..MaxCoef) \ {0}}

Problem(name, variables, objective, constraints) ==
    [name |-> name, variables |-> variables, objective |-> objective,
     linear_constraints |-> constraints]

\* the rows over n variables: 1 on some of the variables, or x1 - x2 - ...
Rows(n) ==
    (Dicts(1..n, {Num(1)}) \ {EmptyDict})
    \cup {[j \in 1..n |-> IF j = 1 THEN Num(1) ELSE -Num(1)]}

\* at most one quadratic term, on the first and the last variable or on the last
QuadraticTerms(n) ==
    {EmptyDict} \cup {[k \in {key} |-> c] : key \in {<<1, n>>, <<n, n>>},
                                              c \in {Num(MaxCoef), -Num(MaxCoef)}}

\* op is a problem with Integer variables, an objective with at most one
\* quadratic term, and up to two equality constraints
AlgProblem ==
    \E n \in 1..Len(VarNames) :
    \E s \in Senses, l \in Dicts(1..n, ObjCoefs), q \in QuadraticTerms(n) :
    \E cs \in SeqsUpTo2([sense : {"EQ"},
                         rhs : {0, Num(MaxRhs)},
                         linear : Rows(n)]) :
        op = Problem("qp", [i \in 1..n |-> integer_var(0, MaxUB, VarNames[i])],
                     [sense |-> s, constant |-> Num(1), linear |-> l, quadratic |-> q], cs)

VarChoices(name) ==
    {binary_var(name), integer_var(1, MaxUB, name), continuous_var(0, MaxUB, name)}

\* op is a problem with variables of every kind, and up to two constraints of
\* every sense, among them constraints with the coefficient 1/2
ShapeProblem ==
    \E n \in 1..Len(VarNames) :
    \E vs \in {v \in [1..n -> UNION {VarChoices(VarNames[i]) : i \in 1..n}] :
                  \A i \in 1..n : v[i].name = VarNames[i]} :
    \E s \in Senses, l \in {EmptyDict, [j \in {n} |-> -Num(MaxCoef)]} :
    \E cs \in SeqsUpTo2([sense : {"EQ", "LE", "GE"},
                         rhs : {Num(MaxRhs)},
                         linear : {[j \in {1} |-> Num(1)], [j \in {n} |-> 2]}]) :
        op = Problem("qp", vs,
                     [sense |-> s, constant |-> 0, linear |-> l,
                      quadratic |-> [k \in {<<1, 1>>} |-> Num(MaxCoef)]], cs)

\* minimize x subject to x = 1, x binary
ExampleProblem ==
    Problem("example", <<binary_var("x")>>,
            [sense |-> "MINIMIZE", constant |-> 0,
             linear |-> [j \in {1} |-> Num(1)], quadratic |-> EmptyDict],
            <<[sense |-> "EQ", rhs |-> Num(1), linear |-> [j \in {1} |-> Num(1)]]>>)

\* maximize 1 + x - y + x*y subject to x + y = 1
TwoVarProblem ==
    Problem("two", <<binary_var("x"), integer_var(0, MaxUB, "y")>>,
            [sense |-> "MAXIMIZE", constant |-> Num(1),
             linear |-> [j \in {1, 2} |-> IF j = 1 THEN Num(1) ELSE -Num(1)],
             quadratic |-> [k \in {<<1, 2>>} |-> Num(1)]],
            <<[sense |-> "EQ", rhs |-> Num(1),
               linear |-> [j \in {1, 2} |-> Num(1)]]>>)

\* minimize y subject to x = 1 and then x + y <= 1
LaterInequalityProblem ==
    Problem("later", <<binary_var("x"), binary_var("y")>>,
            [sense |-> "MINIMIZE", constant |-> 0,
             linear |-> [j \in {2} |-> Num(1)], quadratic |-> EmptyDict],
            <<[sense |-> "EQ", rhs |-> Num(1), linear |-> [j \in {1} |-> Num(1)]],
              [sense |-> "LE", rhs |-> Num(1), linear |-> [j \in {1, 2} |-> Num(1)]]>>)

\* maximize x subject to x >= 1, x continuous
FirstInequalityProblem ==
    Problem("first", <<continuous_var(0, MaxUB, "x")>>,
            [sense |-> "MAXIMIZE", constant |-> 0,
             linear |-> [j \in {1} |-> Num(1)], quadratic |-> EmptyDict],
            <<[sense |-> "GE", rhs |-> Num(1), linear |-> [j \in {1} |-> Num(1)]]>>)

\* minimize -x subject to 0.5*x = 0.5
HalfProblem ==
    Problem("half", <<integer_var(0, MaxUB, "x")>>,
            [sense |-> "MINIMIZE", constant |-> 0,
             linear |-> [j \in {1} |-> -Num(1)], quadratic |-> EmptyDict],
            <<[sense |-> "EQ", rhs |-> 2, linear |-> [j \in {1} |-> 2]]>>)

LifecycleProblems ==
    {ExampleProblem, TwoVarProblem, LaterInequalityProblem,
     FirstInequalityProblem, HalfProblem}

PenaltyArgs == {None} \cup {Some(Num(p)) : p \in 1..MaxPenalty}

NameArgs == {None, Some("penalized")}

XValues == UNION {[1..n -> 0..MaxUB] : n \in 1..Len(VarNames)}

Results == {[x |-> x, fval |-> Num(-99), status |-> st] :
               x \in XValues, st \in {"SUCCESS", "FAILURE"}}

(***************************************************************************)
(* The converter as a state machine.  op is the caller's problem object,   *)
(* snap the object copy.deepcopy makes, src the object self._src refers    *)
(* to; penalty is the local of the last encode call, ret what that call    *)
(* returned, encArg the problem as it was passed to it, okArg the problem  *)
(* as passed to the last encode call that returned; result and new_result  *)
(* are the argument and the outcome of the last decode call since.         *)
(***************************************************************************)
\* variant: no copy is made, self._src is the caller's object
alias(ref) == ref

\* copy.deepcopy: the reference to a new object
deepcopy(ref) == "snap"

Deref(ref) == IF ref = "op" THEN op ELSE Val(snap)

\* __init__(penalty, name)
Fresh ==
    /\ snap = None
    /\ src = "None"
    /\ dst = None
    /\ self_penalty \in PenaltyArgs
    /\ dst_name \in NameArgs
    /\ penalty = None
    /\ ret = None
    /\ encArg = None
    /\ okArg = None
    /\ result = None
    /\ new_result = None

Init == op \in LifecycleProblems /\ Fresh

InitEncode ==
    /\ AlgProblem \/ ShapeProblem \/ op \in LifecycleProblems
    /\ Fresh
    /\ dst_name = None

Encode ==
    LET e == encode(op, self_penalty, dst_name)
    IN  /\ src' = deepcopy("op")
        /\ snap' = IF src' = "snap" THEN Some(op) ELSE snap
        /\ dst' = Some(e.dst)
        /\ penalty' = Some(e.penalty)
        /\ ret' = Some([raised |-> e.raised, value |-> e.value])
        /\ encArg' = Some(op)
        /\ okArg' = IF e.raised THEN okArg ELSE Some(op)
        /\ result' = None
        /\ new_result' = None
        /\ UNCHANGED <<op, self_penalty, dst_name>>

Decode ==
    \E res \in Results :
        /\ src # "None"
        /\ result' = Some(res)
        /\ new_result' = Some(decode(Deref(src), res))
        /\ UNCHANGED <<op, snap, src, dst, self_penalty, dst_name, penalty, ret,
                       encArg, okArg>>

\* decode before any encode: self._src is None
DecodeUnset ==
    \E res \in Results :
        /\ src = "None"
        /\ result' = Some(res)
        /\ new_result' = Some([raised |-> TRUE, value |-> None])
        /\ UNCHANGED <<op, snap, src, dst, self_penalty, dst_name, penalty, ret,
                       encArg, okArg>>

\* the caller changes its problem, or takes another one
Mutate ==
    \E qp \in LifecycleProblems \ {op} :
        /\ op' = qp
        /\ UNCHANGED <<snap, src, dst, self_penalty, dst_name, penalty, ret,
                       encArg, okArg, result, new_result>>

\* penalty getter
get_penalty == self_penalty

\* penalty setter
SetPenalty ==
    \E p \in PenaltyArgs \ {self_penalty} :
        /\ self_penalty' = p
        /\ UNCHANGED <<op, snap, src, dst, dst_name, penalty, ret,
                       encArg, okArg, result, new_result>>

\* name getter
get_name == dst_name

\* name setter
SetName ==
    \E name \in NameArgs \ {dst_name} :
        /\ dst_name' = name
        /\ UNCHANGED <<op, snap, src, dst, self_penalty, penalty, ret,
                       encArg, okArg, result, new_result>>

Next == Encode \/ Decode \/ DecodeUnset \/ Mutate \/ SetPenalty \/ SetName

Spec == Init /\ [][Next]_vars

NextEncode == Encode

SpecEncode == InitEncode /\ [][NextEncode]_vars

(***************************************************************************)
(* What the properties speak about.                                        *)
(***************************************************************************)
\* the last encode call returned
Returned == ret # None /\ ~Val(ret).raised

\* the problem passed to the last encode call
P == Val(encArg)

\* the problem the last encode call returned
Encoded == Val(Val(ret).value)

Assignments(qp) == [1..Len(qp.variables) -> 0..MaxUB]

Feasible(qp, a) ==
    \A i \in 1..Len(qp.linear_constraints) : Satisfied(qp.linear_constraints[i], a)

InBounds(qp, a) ==
    \A i \in 1..Len(qp.variables) :
        qp.variables[i].lowerbound <= a[i] /\ a[i] <= qp.variables[i].upperbound

OnlyEqualities(qp) ==
    \A i \in 1..Len(qp.linear_constraints) : qp.linear_constraints[i].sense = "EQ"

Integral(qp) ==
    \A i \in 1..Len(qp.linear_constraints) :
        /\ qp.linear_constraints[i].rhs % 4 = 0
        /\ \A j \in DOMAIN qp.linear_constraints[i].linear :
               qp.linear_constraints[i].linear[j] % 4 = 0

\* sum over the constraints of (rhs - row(a))^2
SquaredViolation(qp, a) ==
    SumOf([i \in 1..Len(qp.linear_constraints) |->
              LET d == qp.linear_constraints[i].rhs
                       - RowValue(qp.linear_constraints[i].linear, a)
              IN  Mul(d, d)])

\* C1: after encode returned, at every assignment that satisfies every
\* equality constraint the returned objective has the value of the original
\* objective, whatever the penalty and the sense.
C1_FeasibleValueKept ==
    Returned =>
        \A a \in Assignments(P) :
            Feasible(P, a) =>
                Evaluate(Encoded.objective, a) = Evaluate(P.objective, a)

\* a maximized problem with two constraints, a feasible assignment, and
\* objective coefficients on the variables of its first constraint
C1_Witness ==
    /\ Returned
    /\ P.objective.sense = "MAXIMIZE"
    /\ Len(P.linear_constraints) = 2
    /\ \E a \in Assignments(P) : Feasible(P, a)
    /\ \E j \in DOMAIN P.linear_constraints[1].linear :
          /\ j \in DOMAIN P.objective.linear
          /\ <<j, j>> \in DOMAIN P.objective.quadratic

\* C9: after encode returned with a penalty p > 0, at every assignment that
\* violates a constraint the returned objective differs from the original one
\* by sign * p * (sum of the squared violations), sign = +1 when minimizing
\* and -1 when maximizing: strictly more when minimizing, strictly less when
\* maximizing.
C9_PenaltyDifference ==
    (Returned /\ Val(penalty) > 0) =>
        \A a \in Assignments(P) :
            ~Feasible(P, a) =>
                LET diff == Evaluate(Encoded.objective, a) - Evaluate(P.objective, a)
                    sign == IF P.objective.sense = "MINIMIZE" THEN 1 ELSE -1
                IN  /\ diff = Mul(sign * Val(penalty), SquaredViolation(P, a))
                    /\ P.objective.sense = "MINIMIZE" => diff > 0
                    /\ P.objective.sense = "MAXIMIZE" => diff < 0

\* a maximized problem with two constraints over two variables and an
\* assignment that violates one of them
C9_Witness ==
    /\ Returned
    /\ Val(penalty) > 0
    /\ P.objective.sense = "MAXIMIZE"
    /\ Len(P.variables) = 2
    /\ Len(P.linear_constraints) = 2
    /\ Cardinality(DOMAIN P.linear_constraints[1].linear) = 2
    /\ \E a \in Assignments(P) : ~Feasible(P, a)

\* the penalty the heuristic is to compute for qp
AutoPenalty(qp) ==
    IF Integral(qp)
    THEN Num(1)
         + SumOf([j \in DOMAIN qp.objective.linear |-> Abs(qp.objective.linear[j])])
         + SumOf([jk \in DOMAIN qp.objective.quadratic |-> Abs(qp.objective.quadratic[jk])])
    ELSE Num(100000)

\* a is a best feasible assignment of qp within the bounds of its variables
FeasibleOptimum(qp, a) ==
    /\ InBounds(qp, a)
    /\ Feasible(qp, a)
    /\ \A b \in Assignments(qp) :
          (InBounds(qp, b) /\ Feasible(qp, b)) =>
              IF qp.objective.sense = "MINIMIZE"
              THEN Evaluate(qp.objective, a) <= Evaluate(qp.objective, b)
              ELSE Evaluate(qp.objective, a) >= Evaluate(qp.objective, b)

\* C2: after encode returned for a problem of Binary and Integer variables
\* with integral constraints, with a penalty of at least the automatic one,
\* every assignment within the bounds that violates a constraint has a
\* strictly worse returned objective than every feasible optimum.
C2_ViolationWorse ==
    (/\ Returned
     /\ Integral(P)
     /\ \A i \in 1..Len(P.variables) : P.variables[i].vartype \in {"BINARY", "INTEGER"}
     /\ Val(penalty) >= AutoPenalty(P)) =>
        \A a, b \in Assignments(P) :
            (InBounds(P, a) /\ ~Feasible(P, a) /\ FeasibleOptimum(P, b)) =>
                IF P.objective.sense = "MINIMIZE"
                THEN Evaluate(Encoded.objective, a) > Evaluate(Encoded.objective, b)
                ELSE Evaluate(Encoded.objective, a) < Evaluate(Encoded.objective, b)

\* C4: an encode call on a problem with a constraint that is no equality,
\* wherever it stands, raises: it returns no problem, and the destination it
\* leaves behind carries no penalized objective.
C4_InequalityRaises ==
    (encArg # None /\ ~OnlyEqualities(P)) =>
        /\ Val(ret).raised
        /\ Val(ret).value = None
        /\ Val(dst).objective = DefaultObjective

\* an encode call on a problem whose second constraint is the inequality,
\* after an equality
C4_Witness ==
    /\ encArg # None
    /\ Len(P.linear_constraints) = 2
    /\ P.linear_constraints[1].sense = "EQ"
    /\ P.linear_constraints[2].sense = "LE"
    /\ Val(ret).raised

\* C5: the problem encode returns has the variables of the problem passed,
\* in their order, with their names, kinds and bounds, has no constraint, and
\* has the sense of the problem passed.
C5_VariablesKept ==
    Returned =>
        /\ Len(Encoded.variables) = Len(P.variables)
        /\ \A i \in 1..Len(P.variables) :
              /\ Encoded.variables[i].name = P.variables[i].name
              /\ Encoded.variables[i].vartype = P.variables[i].vartype
              /\ Encoded.variables[i].lowerbound = P.variables[i].lowerbound
              /\ Encoded.variables[i].upperbound = P.variables[i].upperbound
        /\ Encoded.linear_constraints = <<>>
        /\ Encoded.objective.sense = P.objective.sense

\* a maximized problem with a Continuous and then an Integer variable and a
\* constraint was encoded
C5_Witness ==
    /\ Returned
    /\ Len(P.variables) = 2
    /\ P.variables[1].vartype = "CONTINUOUS"
    /\ P.variables[2].vartype = "INTEGER"
    /\ P.variables[2].lowerbound < P.variables[2].upperbound
    /\ P.objective.sense = "MAXIMIZE"
    /\ Len(P.linear_constraints) > 0

\* C6: after an encode call that returned, the converter retains the copy of
\* the problem passed and the penalty the call used.
C6_RetainsSourceAndPenalty ==
    Returned =>
        /\ src # "None"
        /\ Deref(src) = P
        /\ get_penalty = penalty

\* C8: an encode call made with no penalty configured uses the penalty of the
\* heuristic for the problem passed: 1 + the absolute linear and quadratic
\* coefficients of the objective when the constraints are integral, 1e5
\* otherwise, and the call then still returns; a call made with a penalty
\* configured uses that penalty.  The example has the automatic penalty 2 and
\* the returned objective 2 - 3x + 2x^2.
C8_PenaltyUsed ==
    encArg # None =>
        /\ self_penalty = None => Val(penalty) = AutoPenalty(P)
        /\ self_penalty # None => penalty = self_penalty
        /\ (OnlyEqualities(P) /\ ~Integral(P)) => Returned
        /\ (P = ExampleProblem /\ self_penalty = None) =>
              /\ Val(penalty) = Num(2)
              /\ Returned
              /\ Encoded.objective =
                    [sense |-> "MINIMIZE", constant |-> Num(2),
                     linear |-> [j \in {1} |-> -Num(3)],
                     quadratic |-> [k \in {<<1, 1>>} |-> Num(2)]]

\* an encode call with no penalty configured on a problem with a constraint
\* coefficient 1/2 returned, having used 1e5
C8_WitnessDefault ==
    /\ Returned
    /\ self_penalty = None
    /\ ~Integral(P)
    /\ Val(penalty) = Num(100000)

\* an encode call with no penalty configured on a problem with a negative
\* linear and a quadratic objective coefficient
C8_Witness ==
    /\ Returned
    /\ self_penalty = None
    /\ Integral(P)
    /\ \E j \in DOMAIN P.objective.linear : P.objective.linear[j] < 0
    /\ P.objective.quadratic # EmptyDict

\* the outcome new is that of decoding res against qp: a raise when res.x has
\* not one value per variable of qp, else the x of res, the value of qp's own
\* objective at x, and SUCCESS exactly when x satisfies every constraint of qp
DecodedAgainst(qp, res, new) ==
    IF Len(res.x) # Len(qp.variables)
    THEN new.raised /\ new.value = None
    ELSE /\ ~new.raised
         /\ Val(new.value).x = res.x
         /\ Val(new.value).fval = Evaluate(qp.objective, res.x)
         /\ Val(new.value).status = "SUCCESS" <=> Feasible(qp, res.x)
         /\ Val(new.value).status = "INFEASIBLE" <=> ~Feasible(qp, res.x)

\* C3: a decode call after encode(P) returned, on a result with one value per
\* variable of P, returns the same x, the value of P's original objective at
\* x, and SUCCESS if x satisfies every constraint of P and INFEASIBLE if not,
\* whatever fval and status the result carried and whatever the penalty.
C3_DecodeResult ==
    (/\ Returned
     /\ new_result # None
     /\ Len(Val(result).x) = Len(P.variables)) =>
        /\ ~Val(new_result).raised
        /\ Val(Val(new_result).value).x = Val(result).x
        /\ Val(Val(new_result).value).fval = Evaluate(P.objective, Val(result).x)
        /\ Val(Val(new_result).value).status =
              IF Feasible(P, Val(result).x) THEN "SUCCESS" ELSE "INFEASIBLE"

\* a result that came in as a FAILURE was decoded to SUCCESS for a problem
\* of two variables with a constraint
C3_Witness ==
    /\ Returned
    /\ new_result # None
    /\ Len(P.variables) = 2
    /\ Len(P.linear_constraints) > 0
    /\ Val(result).status = "FAILURE"
    /\ ~Val(new_result).raised
    /\ Val(Val(new_result).value).status = "SUCCESS"

\* a violating x was decoded to INFEASIBLE
C3_WitnessInfeasible ==
    /\ Returned
    /\ new_result # None
    /\ ~Val(new_result).raised
    /\ Val(Val(new_result).value).status = "INFEASIBLE"

\* C7: every decode call is computed against the problem passed to the most
\* recent encode call, as it was when it was passed, whatever the caller has
\* done to its problem since and whatever was encoded before.
C7_DecodeAgainstLastEncode ==
    (encArg # None /\ new_result # None) =>
        DecodedAgainst(P, Val(result), Val(new_result))

\* a decode call that went through after two encode calls on different
\* problems, the caller having changed its problem since the second
C7_Witness ==
    /\ new_result # None
    /\ ~Val(new_result).raised
    /\ encArg # None
    /\ okArg # None
    /\ okArg # encArg
    /\ op # P
    /\ op # Val(okArg)

\* C10: an encode call that raises leaves the retained source as it was: a
\* decode call after it is computed against the problem of the last encode
\* call that returned.
C10_FailedEncodeKeepsSource ==
    (/\ okArg # None
     /\ ret # None
     /\ Val(ret).raised) =>
        /\ Deref(src) = Val(okArg)
        /\ new_result # None =>
              DecodedAgainst(Val(okArg), Val(result), Val(new_result))

====
